---- MODULE Spec2Model ----
(***************************************************************************)
(* Rollup fee computation of l2geth (rollup/fees/rollup_fee.go) and the    *)
(* on-chain mirror OVM_GasPriceOracle.sol.                                 *)
(*                                                                         *)
(* Machine integers keep their wrap-around, at a reduced width: TLC's      *)
(* integers are 32 bits wide, so uint64 is modelled as Uint64Bits bits,    *)
(* uint256 as Uint256Bits bits and the float64 significand as Float64Mant  *)
(* bits (Float64Mant < Uint64Bits, as 53 < 64).  big.Int values are plain  *)
(* unbounded integers.                                                     *)
(***************************************************************************)
EXTENDS Integers, Sequences, FiniteSets, TLC

(* ------------------------------ bounds --------------------------------- *)

\* Longest calldata byte sequence handed to the L1 cost functions directly.
MaxLen == 3
\* Width of uint64 in the model (64 in the program).
Uint64Bits == 12
\* Width of uint256 in the model (256 in the program).
Uint256Bits == 14
\* Significand width of float64 in the model (53 in the program).
Float64Mant == 10
\* How often one call is repeated with the same argument objects.
MaxRepeat == 2
\* How many setter calls land after one CalculateFee call has started.
MaxUpdates == 2

(* ------------------------- program constants --------------------------- *)

\* params.TxDataZeroGas
TxDataZeroGas == 4
\* params.TxDataNonZeroGasEIP2028
TxDataNonZeroGasEIP2028 == 16
\* OVM_GasPriceOracle.getL1GasUsed: total += 4
ZeroByteGas == 4
\* OVM_GasPriceOracle.getL1GasUsed: total += 16
NonZeroByteGas == 16
\* uint256 public overhead = 2750
InitialOverhead == 2750
\* uint256 public scalar = 1
InitialScalar == 1
\* bytes.Repeat([]byte("ff"), 68)
PadRepeat == 68

(* ------------------------------ helpers -------------------------------- *)

Pow2(n) == 2^n

RECURSIVE BitLen(_)
\* Number of significant bits of a non-negative integer.
BitLen(m) == IF m = 0 THEN 0 ELSE 1 + BitLen(m \div 2)

\* A nil pointer, and a pointer to a value.
Nil == <<>>
Ptr(v) == <<v>>

RECURSIVE SeqsUpTo(_, _)
\* All sequences over S of length at most n.
SeqsUpTo(S, n) ==
    IF n = 0 THEN {<<>>}
    ELSE LET shorter == SeqsUpTo(S, n - 1)
         IN shorter \cup {Append(s, b) : s \in {t \in shorter : Len(t) = n - 1}, b \in S}

(* ------------------- rollup_fee.go: byte cost model -------------------- *)

\* zeroesAndOnes: <<zeroes, ones>>, the uint64 counters after the loop has
\* visited every byte (one increment per byte, so the count modulo 2^64).
zeroesAndOnes(data) ==
    <<Cardinality({i \in DOMAIN data : data[i] = 0}) % Pow2(Uint64Bits),
      Cardinality({i \in DOMAIN data : data[i] # 0}) % Pow2(Uint64Bits)>>

\* A mutant of CalculateL1GasUsed: the two byte weights exchanged.
CalculateL1GasUsed_SwappedWeights(data, overhead) ==
    LET zo == zeroesAndOnes(data)
        zeroesCost == (zo[1] * TxDataNonZeroGasEIP2028) % Pow2(Uint64Bits)
        onesCost == (zo[2] * TxDataZeroGas) % Pow2(Uint64Bits)
        l1Cost == (zeroesCost + onesCost) % Pow2(Uint64Bits)
    IN [val |-> l1Cost + overhead, overhead |-> overhead]

\* CalculateL1GasUsed: uint64 products and sum, then a big.Int addition into a
\* fresh receiver.  val is the value returned, overhead the caller's overhead
\* object after the call.
CalculateL1GasUsed(data, overhead) ==
    LET zo == zeroesAndOnes(data)
        zeroesCost == (zo[1] * TxDataZeroGas) % Pow2(Uint64Bits)
        onesCost == (zo[2] * TxDataNonZeroGasEIP2028) % Pow2(Uint64Bits)
        l1Cost == (zeroesCost + onesCost) % Pow2(Uint64Bits)
    IN [val |-> l1Cost + overhead, overhead |-> overhead]

\* CalculateL1Fee: two big.Int multiplications, each into a fresh receiver.
\* val is the value returned; the other fields are the caller's argument
\* objects after the call.
CalculateL1Fee(data, overhead, l1GasPrice, scalar) ==
    LET cost == CalculateL1GasUsed(data, overhead)
        l1Fee == cost.val * l1GasPrice
    IN [val |-> l1Fee * scalar, data |-> data, overhead |-> cost.overhead,
        l1GasPrice |-> l1GasPrice, scalar |-> scalar]

(* ---------------------- rollup_fee.go: PaysEnough ---------------------- *)

\* big.Float and float64 values are m / den with den a power of two.  A
\* threshold is the record [num, den].  RoundToBits rounds the numerator m to
\* `bits` significant bits, to nearest, ties to even (the rounding mode of
\* big.Float.Mul and of big.Float.Float64).
RoundToBits(m, bits) ==
    IF m < Pow2(bits) THEN m
    ELSE LET s == BitLen(m) - bits
             q == m \div Pow2(s)
             r == m % Pow2(s)
             half == Pow2(s - 1)
             up == r > half \/ (r = half /\ q % 2 = 1)
         IN (IF up THEN q + 1 ELSE q) * Pow2(s)

\* math.Ceil of m / den.
CeilDiv(m, den) == (m + den - 1) \div den

\* A mutant of mulByFloat: the result is stored into num itself (SetUint64 on
\* the argument instead of on a fresh big.Int).
mulByFloat_InPlace(num, float, oor) ==
    LET n == num % Pow2(Uint64Bits)
        product == RoundToBits(n * float.num, Uint64Bits)
        pfloat == RoundToBits(product, Float64Mant)
        rounded == CeilDiv(pfloat, float.den)
        res == IF rounded < Pow2(Uint64Bits) THEN rounded ELSE oor
    IN [val |-> res, num |-> res]

\* mulByFloat(num, float).  n is a big.Float of precision 64 holding
\* num.Uint64() (the low 64 bits of num); product is n*float rounded to that
\* precision; pfloat is product rounded to float64; rounded its ceiling;
\* uint64(rounded) is the value itself when it fits and the build's
\* out-of-range conversion result oor otherwise.  val is the value returned,
\* num the caller's num object after the call.
mulByFloat(num, float, oor) ==
    LET n == num % Pow2(Uint64Bits)
        product == RoundToBits(n * float.num, Uint64Bits)
        pfloat == RoundToBits(product, Float64Mant)
        rounded == CeilDiv(pfloat, float.den)
        res == IF rounded < Pow2(Uint64Bits) THEN rounded ELSE oor
    IN [val |-> res, num |-> num]

\* A mutant of PaysEnough: the ExpectedFee nil check is gone and a nil
\* ExpectedFee counts as zero.
PaysEnough_NoExpectedCheck(opts, oor) ==
    IF opts.UserFee = Nil THEN [err |-> "errMissingInput", opts |-> opts]
    ELSE LET expected == IF opts.ExpectedFee = Nil THEN 0 ELSE opts.ExpectedFee[1]
         IN IF opts.UserFee[1] < expected
            THEN [err |-> "ErrFeeTooLow", opts |-> opts]
            ELSE [err |-> "nil", opts |-> opts]

\* PaysEnough(opts).  err is the error returned ("nil" for success), opts the
\* caller's PaysEnoughOpts objects after the call.  fee is a fresh copy of
\* ExpectedFee (new(big.Int).Set), so the first mulByFloat acts on the copy;
\* the second mulByFloat is handed opts.ExpectedFee itself.
PaysEnough(opts, oor) ==
    IF opts.UserFee = Nil THEN [err |-> "errMissingInput", opts |-> opts]
    ELSE IF opts.ExpectedFee = Nil THEN [err |-> "errMissingInput", opts |-> opts]
    ELSE LET fee == IF opts.ThresholdDown # Nil
                    THEN mulByFloat(opts.ExpectedFee[1], opts.ThresholdDown[1], oor).val
                    ELSE opts.ExpectedFee[1]
         IN IF opts.UserFee[1] < fee
            THEN [err |-> "ErrFeeTooLow", opts |-> opts]
            ELSE IF opts.ThresholdUp # Nil
            THEN LET overpaying == opts.UserFee[1] - opts.ExpectedFee[1]
                     threshold == mulByFloat(opts.ExpectedFee[1], opts.ThresholdUp[1], oor)
                     after == [opts EXCEPT !.ExpectedFee = Ptr(threshold.num)]
                 IN IF overpaying > threshold.val
                    THEN [err |-> "ErrFeeTooHigh", opts |-> after]
                    ELSE [err |-> "nil", opts |-> after]
            ELSE [err |-> "nil", opts |-> opts]

(* ------------------------------- state --------------------------------- *)

VARIABLES
    convOOR,     \* what this build's uint64(float64) yields for an out-of-range value
    callee,      \* the function the caller is about to call, or has called
    opts,        \* the caller's PaysEnoughOpts objects
    optsGiven,   \* their values when the request was built
    l1args,      \* the caller's data, overhead, l1GasPrice and scalar objects
    l1Given,     \* their values when the arguments were built
    calls,       \* how often the call was made with these objects
    retErr,      \* the error PaysEnough returned last ("pending" before a call)
    retVal,      \* the big.Int the L1 function returned last
    storage,     \* OVM_GasPriceOracle's storage: gasPrice, l1BaseFee, overhead, scalar
    qdata,       \* the calldata the node and the contract are asked about
    node,        \* the node's last L1 computation on qdata
    ctr,         \* the contract's last getL1GasUsed / getL1Fee results on qdata
    tx,          \* the signed transaction CalculateFee is pricing
    pc,          \* where the CalculateFee call stands
    locals,      \* its l1GasPrice, overhead and scalar, once fetched
    queries,     \* the oracle queries and the encoding it made, in order, with outcomes
    feeRet,      \* what CalculateFee returned
    during,      \* the triples stored at some instant of the call that agree with
                 \* every parameter fetched so far
    updates,     \* setter calls since the CalculateFee call started
    msgRet       \* what CalculateMsgFee returned, with its arguments

pureVars == <<convOOR, callee, opts, optsGiven, l1args, l1Given, calls, retErr, retVal>>
oracleVars == <<qdata, node, ctr>>
feeVars == <<tx, pc, locals, queries, feeRet, msgRet>>
vars == <<pureVars, storage, oracleVars, feeVars, during, updates>>

(* ------------------------------- inputs -------------------------------- *)

\* Fees around the significand width, around the uint64 width, and small.
FeeValues ==
    {0, 1, 2, 3, Pow2(Float64Mant), Pow2(Float64Mant) + 1,
     Pow2(Uint64Bits) - 1, Pow2(Uint64Bits), Pow2(Uint64Bits) + Pow2(Float64Mant) + 1}
FeePtrs == {Nil} \cup {Ptr(v) : v \in FeeValues}

\* Thresholds 0.5, 1, 1.5 and 3, each exactly a binary fraction.
Thresholds == {[num |-> 1, den |-> 2], [num |-> 1, den |-> 1],
               [num |-> 3, den |-> 2], [num |-> 3, den |-> 1]}
ThresholdPtrs == {Nil} \cup {Ptr(t) : t \in Thresholds}

\* Results a build may give for uint64(x) with x outside the uint64 range.
OutOfRangeResults == {0, Pow2(Uint64Bits - 1), Pow2(Uint64Bits) - 1}

DataBytes == {0, 1, 255}
DataValues == SeqsUpTo(DataBytes, MaxLen)
OverheadValues == {0, 1, InitialOverhead}
ParamValues == {0, 2, 100}

NoOpts == [UserFee |-> Nil, ExpectedFee |-> Nil, ThresholdUp |-> Nil, ThresholdDown |-> Nil]
NoArgs == [data |-> <<>>, overhead |-> 0, l1GasPrice |-> 0, scalar |-> 0]

(* --------------------- the caller of the pure functions ---------------- *)

\* No pure call in hand (the other specifications).
PureIdle ==
    /\ convOOR = 0
    /\ callee = "none"
    /\ opts = NoOpts
    /\ optsGiven = NoOpts
    /\ l1args = NoArgs
    /\ l1Given = NoArgs
    /\ calls = 0
    /\ retErr = "pending"
    /\ retVal = 0

\* The caller has built a PaysEnoughOpts, or the arguments of one of the two
\* L1 functions, and has not called yet.
InitPure ==
    /\ convOOR \in OutOfRangeResults
    /\ callee \in {"PaysEnough", "CalculateL1GasUsed", "CalculateL1Fee"}
    /\ opts \in IF callee = "PaysEnough"
                THEN [UserFee : FeePtrs, ExpectedFee : FeePtrs,
                      ThresholdUp : ThresholdPtrs, ThresholdDown : ThresholdPtrs]
                ELSE {NoOpts}
    /\ optsGiven = opts
    /\ l1args \in IF callee = "PaysEnough"
                  THEN {NoArgs}
                  ELSE [data : DataValues, overhead : OverheadValues,
                        l1GasPrice : ParamValues, scalar : ParamValues]
    /\ l1Given = l1args
    /\ calls = 0
    /\ retErr = "pending"
    /\ retVal = 0

\* The caller calls PaysEnough(opts).
CallPaysEnough ==
    /\ callee = "PaysEnough"
    /\ calls < MaxRepeat
    /\ LET r == PaysEnough(opts, convOOR)
       IN /\ retErr' = r.err
          /\ opts' = r.opts
    /\ calls' = calls + 1
    /\ UNCHANGED <<convOOR, callee, optsGiven, l1args, l1Given, retVal, storage, oracleVars, feeVars, during, updates>>

\* The caller calls CalculateL1GasUsed(data, overhead).
CallCalculateL1GasUsed ==
    /\ callee = "CalculateL1GasUsed"
    /\ calls < MaxRepeat
    /\ LET r == CalculateL1GasUsed(l1args.data, l1args.overhead)
       IN /\ retVal' = r.val
          /\ l1args' = [l1args EXCEPT !.overhead = r.overhead]
    /\ calls' = calls + 1
    /\ UNCHANGED <<convOOR, callee, opts, optsGiven, l1Given, retErr, storage, oracleVars, feeVars, during, updates>>

\* The caller calls CalculateL1Fee(data, overhead, l1GasPrice, scalar).
CallCalculateL1Fee ==
    /\ callee = "CalculateL1Fee"
    /\ calls < MaxRepeat
    /\ LET r == CalculateL1Fee(l1args.data, l1args.overhead, l1args.l1GasPrice, l1args.scalar)
       IN /\ retVal' = r.val
          /\ l1args' = [data |-> r.data, overhead |-> r.overhead,
                        l1GasPrice |-> r.l1GasPrice, scalar |-> r.scalar]
    /\ calls' = calls + 1
    /\ UNCHANGED <<convOOR, callee, opts, optsGiven, l1Given, retErr, storage, oracleVars, feeVars, during, updates>>

NextPure ==
    \/ CallPaysEnough
    \/ CallCalculateL1GasUsed
    \/ CallCalculateL1Fee

(* ------------------- OVM_GasPriceOracle.sol: the contract -------------- *)

\* A view call's outcome: a returned uint256, or a revert.
Returned(v) == [ok |-> TRUE, val |-> v]
Reverted == [ok |-> FALSE, val |-> 0]

\* SafeMath.add: the wrapped sum, reverting when it is below an operand.
SafeMath_add(a, b) ==
    LET c == (a + b) % Pow2(Uint256Bits)
    IN IF c >= a THEN Returned(c) ELSE Reverted

\* SafeMath.mul: zero for a zero first factor, else the wrapped product,
\* reverting unless dividing it by the first factor gives back the second.
SafeMath_mul(a, b) ==
    IF a = 0 THEN Returned(0)
    ELSE LET c == (a * b) % Pow2(Uint256Bits)
         IN IF c \div a = b THEN Returned(c) ELSE Reverted

RECURSIVE getL1GasUsed_total(_)
\* The loop of getL1GasUsed: total += 4 or 16 per byte, in unchecked uint256.
getL1GasUsed_total(data) ==
    IF data = <<>> THEN 0
    ELSE LET before == getL1GasUsed_total(SubSeq(data, 1, Len(data) - 1))
         IN IF data[Len(data)] = 0
            THEN (before + ZeroByteGas) % Pow2(Uint256Bits)
            ELSE (before + NonZeroByteGas) % Pow2(Uint256Bits)

\* A mutant of getL1GasUsed: the stored overhead is left out.
getL1GasUsed_NoOverhead(st, data) == Returned(getL1GasUsed_total(data))

\* getL1GasUsed(_data) on storage st.
getL1GasUsed(st, data) == SafeMath_add(getL1GasUsed_total(data), st.overhead)

\* getL1Fee(_data) on storage st; a revert of an inner call reverts the call.
getL1Fee(st, data) ==
    LET l1Cost == getL1GasUsed(st, data)
    IN IF ~l1Cost.ok THEN Reverted
       ELSE LET l1Fee == SafeMath_mul(l1Cost.val, st.l1BaseFee)
            IN IF ~l1Fee.ok THEN Reverted
               ELSE SafeMath_mul(l1Fee.val, st.scalar)

\* ReadGPOStorageSlots: the three slots of the predeploy, each word as an
\* unsigned integer.
ReadGPOStorageSlots(st) ==
    [l1GasPrice |-> st.l1BaseFee, overhead |-> st.overhead, scalar |-> st.scalar]

\* Storage after construction.
InitialStorage ==
    [gasPrice |-> 0, l1BaseFee |-> 0, overhead |-> InitialOverhead, scalar |-> InitialScalar]

\* Words the owner stores with each setter.
GasPriceWords == {0, 1}
L1BaseFeeWords == {0, 2, Pow2(Uint256Bits - 1)}
OverheadWords == {0, InitialOverhead, Pow2(Uint256Bits - 2), Pow2(Uint256Bits) - 1}
ScalarWords == {1, 2}

\* Calldata the node and the contract are asked about.
QueryBytes == {0, 1}
QueryData == SeqsUpTo(QueryBytes, MaxLen)

NotAsked == [called |-> FALSE, params |-> ReadGPOStorageSlots(InitialStorage),
             gasUsed |-> Returned(0), fee |-> Returned(0)]

InitOracle ==
    /\ storage = InitialStorage
    /\ qdata = <<>>
    /\ node = NotAsked
    /\ ctr = NotAsked

\* Whether a triple agrees with the parameters a CalculateFee call has fetched.
InCall == pc \in {"SuggestL1GasPrice", "SuggestOverhead", "SuggestScalar", "rawTransaction"}
Agrees(t, l) ==
    /\ l.l1GasPrice = Nil \/ l.l1GasPrice = Ptr(t.l1GasPrice)
    /\ l.overhead = Nil \/ l.overhead = Ptr(t.overhead)
    /\ l.scalar = Nil \/ l.scalar = Ptr(t.scalar)

\* during, once the storage has become st while a call is in progress.
Observed(st) ==
    IF InCall /\ Agrees(ReadGPOStorageSlots(st), locals)
    THEN during \cup {ReadGPOStorageSlots(st)}
    ELSE during

\* A setter call is counted from the start of a CalculateFee call on.
MayUpdate == pc = "idle" \/ updates < MaxUpdates
Counted == IF pc = "idle" THEN updates ELSE updates + 1

\* The four owner-gated setters; each overwrites its word.
setGasPrice ==
    \E v \in GasPriceWords :
        /\ MayUpdate
        /\ storage' = [storage EXCEPT !.gasPrice = v]
        /\ during' = Observed(storage')
        /\ updates' = Counted
        /\ UNCHANGED <<oracleVars, pureVars, feeVars>>

setL1BaseFee ==
    \E v \in L1BaseFeeWords :
        /\ MayUpdate
        /\ storage' = [storage EXCEPT !.l1BaseFee = v]
        /\ during' = Observed(storage')
        /\ updates' = Counted
        /\ UNCHANGED <<oracleVars, pureVars, feeVars>>

setOverhead ==
    \E v \in OverheadWords :
        /\ MayUpdate
        /\ storage' = [storage EXCEPT !.overhead = v]
        /\ during' = Observed(storage')
        /\ updates' = Counted
        /\ UNCHANGED <<oracleVars, pureVars, feeVars>>

setScalar ==
    \E v \in ScalarWords :
        /\ MayUpdate
        /\ storage' = [storage EXCEPT !.scalar = v]
        /\ during' = Observed(storage')
        /\ updates' = Counted
        /\ UNCHANGED <<oracleVars, pureVars, feeVars>>

\* The node, having read the three slots, and the contract's two view
\* functions price the calldata d on the same state.
PriceCalldata ==
    \E d \in QueryData :
        /\ qdata' = d
        /\ LET p == ReadGPOStorageSlots(storage)
           IN node' = [called |-> TRUE, params |-> p,
                       gasUsed |-> Returned(CalculateL1GasUsed(d, p.overhead).val),
                       fee |-> Returned(CalculateL1Fee(d, p.overhead, p.l1GasPrice, p.scalar).val)]
        /\ ctr' = [called |-> TRUE, params |-> ReadGPOStorageSlots(storage),
                   gasUsed |-> getL1GasUsed(storage, d),
                   fee |-> getL1Fee(storage, d)]
        /\ UNCHANGED <<storage, pureVars, feeVars, during, updates>>

NextOracle ==
    \/ setGasPrice
    \/ setL1BaseFee
    \/ setOverhead
    \/ setScalar
    \/ PriceCalldata

(* -------------------- transaction wire encoding (RLP) ------------------ *)

RECURSIVE BigEndian(_)
\* The big-endian bytes of a non-negative integer, without leading zeros.
BigEndian(v) == IF v = 0 THEN <<>> ELSE Append(BigEndian(v \div 256), v % 256)

\* An RLP string: a single byte below 0x80 is itself, a short string gets a
\* 0x80+length prefix, a long one 0xb7+length-of-length and the length.
RlpString(b) ==
    IF Len(b) = 1 /\ b[1] < 128 THEN b
    ELSE IF Len(b) < 56 THEN <<128 + Len(b)>> \o b
    ELSE <<183 + Len(BigEndian(Len(b)))>> \o BigEndian(Len(b)) \o b

\* An RLP integer: the string of its big-endian bytes.
RlpUint(v) == RlpString(BigEndian(v))

\* An RLP list around an encoded payload.
RlpList(payload) ==
    IF Len(payload) < 56 THEN <<192 + Len(payload)>> \o payload
    ELSE <<247 + Len(BigEndian(Len(payload)))>> \o BigEndian(Len(payload)) \o payload

\* Transaction.EncodeRLP: the list of nonce, gas price, gas limit, recipient
\* (empty for a contract creation), value, payload, V, R, S.  V, R and S are
\* held as their big-endian bytes (empty for zero).
EncodeRLP(t) ==
    RlpList(RlpUint(t.nonce) \o RlpUint(t.gasPrice) \o RlpUint(t.gas)
            \o RlpString(IF t.to = Nil THEN <<>> ELSE t.to[1])
            \o RlpUint(t.value) \o RlpString(t.data)
            \o RlpString(t.v) \o RlpString(t.r) \o RlpString(t.s))

\* bytes.Repeat([]byte("ff"), 68): the two ASCII characters 'f' 'f' (0x66),
\* 68 times.
SignaturePadding == [i \in 1..(2 * PadRepeat) |-> 102]

\* rawTransaction(tx, pad); encErr is the outcome of tx.EncodeRLP.
rawTransaction(t, pad, encErr) ==
    IF encErr # "nil" THEN [err |-> encErr, raw |-> <<>>]
    ELSE [err |-> "nil",
          raw |-> IF pad THEN EncodeRLP(t) \o SignaturePadding ELSE EncodeRLP(t)]

\* asTransaction(msg): NewContractCreation or NewTransaction, neither signed.
asTransaction(msg) ==
    [nonce |-> msg.nonce, gasPrice |-> msg.gasPrice, gas |-> msg.gas,
     to |-> msg.to, value |-> msg.value, data |-> msg.data,
     v |-> <<>>, r |-> <<>>, s |-> <<>>]

(* ------------------- rollup_fee.go: the message path ------------------- *)

\* CalculateL1MsgFee(msg, state): err and the L1 fee (nil on an error).
CalculateL1MsgFee(msg, st, encErr) ==
    LET raw == rawTransaction(asTransaction(msg), TRUE, encErr)
        p == ReadGPOStorageSlots(st)
    IN IF raw.err # "nil" THEN [err |-> raw.err, fee |-> Nil]
       ELSE [err |-> "nil",
             fee |-> Ptr(CalculateL1Fee(raw.raw, p.overhead, p.l1GasPrice, p.scalar).val)]

\* A mutant of CalculateMsgFee: the L2 part is priced on the message's gas
\* limit, not on gasUsed.
CalculateMsgFee_GasLimit(msg, st, gasUsed, encErr) ==
    LET l1Fee == CalculateL1MsgFee(msg, st, encErr)
    IN IF l1Fee.err # "nil" THEN [err |-> l1Fee.err, fee |-> Nil]
       ELSE [err |-> "nil", fee |-> Ptr(l1Fee.fee[1] + msg.gasPrice * msg.gas)]

\* CalculateMsgFee(msg, state, gasUsed).
CalculateMsgFee(msg, st, gasUsed, encErr) ==
    LET l1Fee == CalculateL1MsgFee(msg, st, encErr)
    IN IF l1Fee.err # "nil" THEN [err |-> l1Fee.err, fee |-> Nil]
       ELSE [err |-> "nil", fee |-> Ptr(l1Fee.fee[1] + msg.gasPrice * gasUsed)]

(* -------------------- rollup_fee.go: CalculateFee ---------------------- *)

\* A 20-byte recipient, and two signatures: 32-byte R and S, one of them with
\* zero bytes, and a 31-byte R.
AddressA == [i \in 1..20 |-> IF i = 1 THEN 66 ELSE IF i = 20 THEN 15 ELSE 0]
Signatures ==
    {[v |-> <<27>>, r |-> [i \in 1..32 |-> 17], s |-> [i \in 1..32 |-> IF i % 2 = 1 THEN 34 ELSE 0]],
     [v |-> <<28>>, r |-> [i \in 1..31 |-> 51], s |-> [i \in 1..32 |-> 17]]}

\* What a transaction and a message have in common.
Contents ==
    {[nonce |-> 1, gasPrice |-> 2, gas |-> 200, to |-> Nil, value |-> 0, data |-> <<0, 0, 1>>],
     [nonce |-> 0, gasPrice |-> 3, gas |-> 100, to |-> Ptr(AddressA), value |-> 5, data |-> <<>>]}

SignedTx(c, sig) ==
    [nonce |-> c.nonce, gasPrice |-> c.gasPrice, gas |-> c.gas, to |-> c.to,
     value |-> c.value, data |-> c.data, v |-> sig.v, r |-> sig.r, s |-> sig.s]

ContentOf(t) ==
    [nonce |-> t.nonce, gasPrice |-> t.gasPrice, gas |-> t.gas, to |-> t.to,
     value |-> t.value, data |-> t.data]

Transactions == {SignedTx(c, sig) : c \in Contents, sig \in Signatures}
GasUsedValues == {21, 150}

\* Errors of the collaborators: an oracle query, the RLP encoder.
OracleErrors == {"context canceled", "oracle unavailable"}
EncodeErrors == {"rlp: encoding failed"}

\* RollupOracle.Suggest*: the oracle serves the contract's current word.
SuggestL1GasPrice(st) == st.l1BaseFee
SuggestOverhead(st) == st.overhead
SuggestScalar(st) == st.scalar

NoLocals == [l1GasPrice |-> Nil, overhead |-> Nil, scalar |-> Nil]
NoRet == [err |-> "pending", fee |-> Nil]
NoMsgRet == [called |-> FALSE, gasUsed |-> 0, params |-> ReadGPOStorageSlots(InitialStorage),
             err |-> "pending", l1Fee |-> Nil, fee |-> Nil]

\* No CalculateFee call has been made.
FeeIdle ==
    /\ pc = "idle"
    /\ locals = NoLocals
    /\ queries = <<>>
    /\ feeRet = NoRet
    /\ during = {}
    /\ updates = 0
    /\ msgRet = NoMsgRet

InitFee == tx \in Transactions /\ FeeIdle

\* CalculateFee(tx, gpo) is called.
StartCalculateFee ==
    /\ pc \in {"idle", "returned"}
    /\ pc' = "SuggestL1GasPrice"
    /\ locals' = NoLocals
    /\ queries' = <<>>
    /\ feeRet' = NoRet
    /\ during' = {ReadGPOStorageSlots(storage)}
    /\ updates' = 0
    /\ msgRet' = NoMsgRet
    /\ UNCHANGED <<tx, storage, pureVars, oracleVars>>

\* A mutant of QueryL1GasPrice: a failed query is issued again.
QueryL1GasPrice_Retry ==
    /\ pc = "SuggestL1GasPrice"
    /\ Len(queries) < 3
    /\ \E e \in {"nil"} \cup OracleErrors :
        /\ queries' = Append(queries, [name |-> "SuggestL1GasPrice", err |-> e,
                                       val |-> SuggestL1GasPrice(storage)])
        /\ IF e = "nil"
           THEN /\ locals' = [locals EXCEPT !.l1GasPrice = Ptr(SuggestL1GasPrice(storage))]
                /\ during' = {t \in during : t.l1GasPrice = SuggestL1GasPrice(storage)}
                /\ pc' = "SuggestOverhead"
           ELSE /\ locals' = locals
                /\ during' = during
                /\ pc' = pc
        /\ feeRet' = feeRet
    /\ UNCHANGED <<tx, updates, msgRet, storage, pureVars, oracleVars>>

\* l1GasPrice, err := gpo.SuggestL1GasPrice(ctx); an error is returned.
QueryL1GasPrice ==
    /\ pc = "SuggestL1GasPrice"
    /\ \E e \in {"nil"} \cup OracleErrors :
        /\ queries' = Append(queries, [name |-> "SuggestL1GasPrice", err |-> e,
                                       val |-> SuggestL1GasPrice(storage)])
        /\ IF e = "nil"
           THEN /\ locals' = [locals EXCEPT !.l1GasPrice = Ptr(SuggestL1GasPrice(storage))]
                /\ during' = {t \in during : t.l1GasPrice = SuggestL1GasPrice(storage)}
                /\ pc' = "SuggestOverhead"
                /\ feeRet' = feeRet
           ELSE /\ locals' = locals
                /\ during' = during
                /\ pc' = "returned"
                /\ feeRet' = [err |-> e, fee |-> Nil]
    /\ UNCHANGED <<tx, updates, msgRet, storage, pureVars, oracleVars>>

\* overhead, err := gpo.SuggestOverhead(ctx); an error is returned.
QueryOverhead ==
    /\ pc = "SuggestOverhead"
    /\ \E e \in {"nil"} \cup OracleErrors :
        /\ queries' = Append(queries, [name |-> "SuggestOverhead", err |-> e,
                                       val |-> SuggestOverhead(storage)])
        /\ IF e = "nil"
           THEN /\ locals' = [locals EXCEPT !.overhead = Ptr(SuggestOverhead(storage))]
                /\ during' = {t \in during : t.overhead = SuggestOverhead(storage)}
                /\ pc' = "SuggestScalar"
                /\ feeRet' = feeRet
           ELSE /\ locals' = locals
                /\ during' = during
                /\ pc' = "returned"
                /\ feeRet' = [err |-> e, fee |-> Nil]
    /\ UNCHANGED <<tx, updates, msgRet, storage, pureVars, oracleVars>>

\* scalar, err := gpo.SuggestScalar(ctx); an error is returned.
QueryScalar ==
    /\ pc = "SuggestScalar"
    /\ \E e \in {"nil"} \cup OracleErrors :
        /\ queries' = Append(queries, [name |-> "SuggestScalar", err |-> e,
                                       val |-> SuggestScalar(storage)])
        /\ IF e = "nil"
           THEN /\ locals' = [locals EXCEPT !.scalar = Ptr(SuggestScalar(storage))]
                /\ during' = {t \in during : t.scalar = SuggestScalar(storage)}
                /\ pc' = "rawTransaction"
                /\ feeRet' = feeRet
           ELSE /\ locals' = locals
                /\ during' = during
                /\ pc' = "returned"
                /\ feeRet' = [err |-> e, fee |-> Nil]
    /\ UNCHANGED <<tx, updates, msgRet, storage, pureVars, oracleVars>>

\* The tail of CalculateFee: l1Fee, l2GasLimit, l2Fee and their sum.
FeeOf(t, raw, l) ==
    LET l1Fee == CalculateL1Fee(raw, l.overhead[1], l.l1GasPrice[1], l.scalar[1]).val
        l2GasLimit == t.gas
        l2Fee == t.gasPrice * l2GasLimit
    IN l1Fee + l2Fee

\* raw, err := rawTransaction(tx, false) and the rest of CalculateFee.
EncodeAndReturn ==
    /\ pc = "rawTransaction"
    /\ \E e \in {"nil"} \cup EncodeErrors :
        LET raw == rawTransaction(tx, FALSE, e)
        IN /\ queries' = Append(queries, [name |-> "rawTransaction", err |-> raw.err, val |-> 0])
           /\ feeRet' = IF raw.err # "nil" THEN [err |-> raw.err, fee |-> Nil]
                        ELSE [err |-> "nil", fee |-> Ptr(FeeOf(tx, raw.raw, locals))]
    /\ pc' = "returned"
    /\ UNCHANGED <<tx, locals, during, updates, msgRet, storage, pureVars, oracleVars>>

\* CalculateMsgFee(msg, state, gasUsed) is called on the current state, for
\* the message with the content of tx.
CallCalculateMsgFee ==
    /\ pc = "returned"
    /\ ~msgRet.called
    /\ \E g \in GasUsedValues, e \in {"nil"} \cup EncodeErrors :
        LET r == CalculateMsgFee(ContentOf(tx), storage, g, e)
        IN msgRet' = [called |-> TRUE, gasUsed |-> g,
                      params |-> ReadGPOStorageSlots(storage),
                      err |-> r.err,
                      l1Fee |-> CalculateL1MsgFee(ContentOf(tx), storage, e).fee,
                      fee |-> r.fee]
    /\ UNCHANGED <<tx, pc, locals, queries, feeRet, during, updates, storage, pureVars, oracleVars>>

NextFee ==
    \/ setL1BaseFee
    \/ setOverhead
    \/ setScalar
    \/ StartCalculateFee
    \/ QueryL1GasPrice
    \/ QueryOverhead
    \/ QueryScalar
    \/ EncodeAndReturn
    \/ CallCalculateMsgFee

(* --------------------------- specifications ---------------------------- *)

\* The transaction held where CalculateFee is not under study.
SomeTx == SignedTx(CHOOSE c \in Contents : TRUE, CHOOSE g \in Signatures : TRUE)

\* The caller of the pure functions PaysEnough, CalculateL1GasUsed, CalculateL1Fee.
Init == InitPure /\ InitOracle /\ tx = SomeTx /\ FeeIdle
Next == NextPure
Spec == Init /\ [][Next]_vars

\* The contract under its owner's setters, and the node beside it.
InitOracleSpec == PureIdle /\ InitOracle /\ tx = SomeTx /\ FeeIdle
SpecOracle == InitOracleSpec /\ [][NextOracle]_vars

\* CalculateFee and CalculateMsgFee with the setters interleaved.
InitFeeSpec == PureIdle /\ InitOracle /\ InitFee
SpecFee == InitFeeSpec /\ [][NextFee]_vars

(* ------------------------------ properties ----------------------------- *)

\* Exact arithmetic, for reference: the ceiling of fee * threshold, and the
\* byte-cost formula.
CeilMul(fee, t) == CeilDiv(fee * t.num, t.den)
IsZeroByte(b) == b = 0
IsNonZeroByte(b) == b # 0
L1GasFormula(data, o) ==
    4 * Len(SelectSeq(data, IsZeroByte)) + 16 * Len(SelectSeq(data, IsNonZeroByte)) + o
PaysEnoughCalled == callee = "PaysEnough" /\ calls >= 1
BothFeesGiven == optsGiven.UserFee # Nil /\ optsGiven.ExpectedFee # Nil

\* The outcome the PaysEnough rule gives with exact ceilings.
ExactOutcome(o) ==
    LET floor == IF o.ThresholdDown = Nil THEN o.ExpectedFee[1]
                 ELSE CeilMul(o.ExpectedFee[1], o.ThresholdDown[1])
    IN IF o.UserFee[1] < floor THEN "ErrFeeTooLow"
       ELSE IF o.ThresholdUp # Nil
               /\ o.UserFee[1] - o.ExpectedFee[1] > CeilMul(o.ExpectedFee[1], o.ThresholdUp[1])
       THEN "ErrFeeTooHigh"
       ELSE "nil"

\* C1: for a request with both fees present and below 2^64, PaysEnough returns
\* exactly FeeTooLow when UserFee < floor (ExpectedFee, or ceil(ExpectedFee *
\* ThresholdDown)), else FeeTooHigh when ThresholdUp is present and UserFee -
\* ExpectedFee > ceil(ExpectedFee * ThresholdUp), else success.
C1_ExactOutcome ==
    (/\ PaysEnoughCalled
     /\ BothFeesGiven
     /\ optsGiven.UserFee[1] < Pow2(Uint64Bits)
     /\ optsGiven.ExpectedFee[1] < Pow2(Uint64Bits))
    => retErr = ExactOutcome(optsGiven)

\* C2: CalculateL1GasUsed(data, overhead) is 4 per zero byte plus 16 per
\* non-zero byte plus overhead, and CalculateL1Fee is that times l1GasPrice
\* times scalar, exactly.
C2_L1Formula ==
    calls >= 1 =>
        /\ callee = "CalculateL1GasUsed"
            => retVal = L1GasFormula(l1Given.data, l1Given.overhead)
        /\ callee = "CalculateL1Fee"
            => retVal = L1GasFormula(l1Given.data, l1Given.overhead)
                            * l1Given.l1GasPrice * l1Given.scalar

\* C2's case: CalculateL1Fee has priced calldata with zero and non-zero bytes
\* under a non-zero overhead, price and scalar.
C2_Witness ==
    /\ callee = "CalculateL1Fee"
    /\ calls >= 1
    /\ \E i \in DOMAIN l1Given.data : l1Given.data[i] = 0
    /\ \E i \in DOMAIN l1Given.data : l1Given.data[i] # 0
    /\ l1Given.overhead > 0
    /\ l1Given.l1GasPrice > 1
    /\ l1Given.scalar > 1
    /\ retVal > 0

\* C6: PaysEnough returns the missing-input error exactly when UserFee or
\* ExpectedFee is nil, whatever the other fields hold.
C6_MissingInput ==
    PaysEnoughCalled =>
        (retErr = "errMissingInput"
            <=> (optsGiven.UserFee = Nil \/ optsGiven.ExpectedFee = Nil))

\* C6's case: a request without ExpectedFee, with UserFee and both thresholds,
\* was refused.
C6_Witness ==
    /\ PaysEnoughCalled
    /\ optsGiven.UserFee # Nil
    /\ optsGiven.ExpectedFee = Nil
    /\ optsGiven.ThresholdUp # Nil
    /\ optsGiven.ThresholdDown # Nil
    /\ retErr = "errMissingInput"

\* C9: whenever PaysEnough succeeds, UserFee >= ExpectedFee when ThresholdDown
\* is nil, and UserFee >= ceil(ExpectedFee * ThresholdDown) otherwise, the fee
\* being taken through its conversion to uint64; for fees of any magnitude.
C9_NeverUnderpaid ==
    (PaysEnoughCalled /\ retErr = "nil") =>
        IF optsGiven.ThresholdDown = Nil
        THEN optsGiven.UserFee[1] >= optsGiven.ExpectedFee[1]
        ELSE optsGiven.UserFee[1] >=
                CeilMul(optsGiven.ExpectedFee[1] % Pow2(Uint64Bits), optsGiven.ThresholdDown[1])

\* C10: a call of PaysEnough, CalculateL1GasUsed or CalculateL1Fee leaves the
\* caller's argument objects as they were, and a repeated call with the same
\* objects returns what the call before returned.
C10_NoMutation ==
    [][calls' = calls + 1 =>
          /\ opts' = opts
          /\ l1args' = l1args
          /\ calls >= 1 => (retErr' = retErr /\ retVal' = retVal)]_vars

\* C10's case: PaysEnough was called twice on one request with both
\* thresholds, got past both mulByFloat calls and succeeded.
C10_Witness ==
    /\ callee = "PaysEnough"
    /\ calls >= 2
    /\ opts.ThresholdUp # Nil
    /\ opts.ThresholdDown # Nil
    /\ opts.ExpectedFee # Nil /\ opts.ExpectedFee[1] > 0
    /\ retErr = "nil"

\* The unbounded values behind the node's results: gas used, gas used times
\* price, and the fee.
FitsWord(v) == v < Pow2(Uint256Bits)
BothPriced == node.called /\ ctr.called

\* C3: for every calldata and every stored triple the setters can reach, the
\* contract's getL1GasUsed and getL1Fee return what the node's
\* CalculateL1GasUsed and CalculateL1Fee compute.
C3_ContractEqualsNode ==
    BothPriced => (ctr.gasUsed = node.gasUsed /\ ctr.fee = node.fee)

\* C3, amended: whenever a view call of the contract returns, it returns the
\* node's value; getL1GasUsed reverts exactly when the gas used does not fit a
\* uint256, and getL1Fee reverts exactly when the gas used, the gas used times
\* l1BaseFee (with a non-zero gas used), or the fee does not fit.
C3_EqualUnlessRevert ==
    BothPriced =>
        LET g == node.gasUsed.val
            p == node.params.l1GasPrice
        IN /\ ctr.gasUsed.ok <=> FitsWord(g)
           /\ ctr.gasUsed.ok => ctr.gasUsed.val = g
           /\ ctr.fee.ok <=> (FitsWord(g) /\ FitsWord(g * p) /\ FitsWord(node.fee.val))
           /\ ctr.fee.ok => ctr.fee.val = node.fee.val

\* C3's case: after setter calls, both sides priced calldata with zero and
\* non-zero bytes and the contract returned a non-zero fee.
C3_Witness ==
    /\ BothPriced
    /\ storage.gasPrice # InitialStorage.gasPrice
    /\ node.params.overhead # InitialOverhead
    /\ node.params.scalar # InitialScalar
    /\ \E i \in DOMAIN qdata : qdata[i] = 0
    /\ \E i \in DOMAIN qdata : qdata[i] # 0
    /\ ctr.fee.ok
    /\ ctr.fee.val > 0

\* The calls CalculateFee makes, in the order of its code.
CallOrder == <<"SuggestL1GasPrice", "SuggestOverhead", "SuggestScalar", "rawTransaction">>
FeeReturned == pc = "returned" /\ feeRet.err = "nil"
MsgFeeReturned == msgRet.called /\ msgRet.err = "nil"

\* C4: CalculateFee returns the L1 fee of the signed encoding, under the three
\* values the oracle returned, plus tx.GasPrice * tx.Gas; CalculateMsgFee
\* returns CalculateL1MsgFee plus msg.GasPrice * gasUsed.
C4_FeeIsSum ==
    /\ FeeReturned =>
        feeRet.fee = Ptr(L1GasFormula(EncodeRLP(tx), queries[2].val)
                             * queries[1].val * queries[3].val
                         + tx.gasPrice * tx.gas)
    /\ MsgFeeReturned =>
        /\ msgRet.l1Fee # Nil
        /\ msgRet.fee = Ptr(msgRet.l1Fee[1] + tx.gasPrice * msgRet.gasUsed)

\* C4's case: both paths returned a fee, with a non-zero L1 part, and gasUsed
\* differs from the gas limit.
C4_Witness ==
    /\ FeeReturned
    /\ MsgFeeReturned
    /\ msgRet.l1Fee[1] > 0
    /\ feeRet.fee[1] > tx.gasPrice * tx.gas
    /\ msgRet.gasUsed # tx.gas

\* C5: for the same content and the same parameter triple, the L1 fee of the
\* signed encoding equals the L1 fee of the padded unsigned encoding, so the
\* two total fees differ by gasPrice * (gasLimit - gasUsed).
C5_SameL1Fee ==
    (/\ FeeReturned
     /\ MsgFeeReturned
     /\ locals = [l1GasPrice |-> Ptr(msgRet.params.l1GasPrice),
                  overhead |-> Ptr(msgRet.params.overhead),
                  scalar |-> Ptr(msgRet.params.scalar)])
    => /\ feeRet.fee[1] - tx.gasPrice * tx.gas = msgRet.l1Fee[1]
       /\ feeRet.fee[1] - msgRet.fee[1] = tx.gasPrice * (tx.gas - msgRet.gasUsed)

\* C7: CalculateFee makes its calls once each, in order, stops at the first
\* that fails, and returns that call's error and no fee; it returns a fee only
\* when all four succeeded.
C7_FirstFailure ==
    LET n == Len(queries)
    IN /\ n <= Len(CallOrder)
       /\ \A i \in 1..n : queries[i].name = CallOrder[i]
       /\ \A i \in 1..n : i < n => queries[i].err = "nil"
       /\ (n >= 1 /\ queries[n].err # "nil") => pc = "returned"
       /\ pc = "returned" =>
            /\ n >= 1
            /\ feeRet.err = queries[n].err
            /\ feeRet.err # "nil" => feeRet.fee = Nil
            /\ feeRet.err = "nil" => (n = Len(CallOrder) /\ feeRet.fee # Nil)

\* C7's case: the second query failed after the first succeeded, and its
\* error came back.
C7_Witness ==
    /\ pc = "returned"
    /\ Len(queries) = 2
    /\ queries[1].err = "nil"
    /\ queries[2].err = "context canceled"
    /\ feeRet = [err |-> "context canceled", fee |-> Nil]

\* C8: the triple a CalculateFee call used was the stored triple at one
\* instant of the call, whatever setter calls were interleaved.
C8_AtomicSnapshot ==
    FeeReturned => during # {}

====
